---- MODULE Spec2Model ----
(***************************************************************************)
(* State-machine model of the GangNangBot agent backend:                   *)
(*   routers/auth.py      /google/login, /google/callback, /me,            *)
(*                        upsert_user, get_user_by_id                      *)
(*   routers/database.py  get_db, /check-db                                *)
(* Every await of a handler is a step of its own, so concurrent requests   *)
(* interleave exactly where the event loop lets them.                      *)
(***************************************************************************)
EXTENDS Integers, Sequences, FiniteSets, TLC

\* ------------------------------------------------------------- bounds
NumSlots == 2          \* request handlers that may be in flight together
MaxReqs == 2           \* requests served in one behaviour
MaxTime == 1           \* the clock runs 0..MaxTime

\* ------------------------------------------------- program constants
pool_size == 20
max_overflow == 10
ExpireTicks == 1       \* lifetime of an access token, in clock ticks

Slots == 1..NumSlots
Nil == "None"          \* Python None / SQL NULL

\* -------------------------------------------------------- input sets
GoogleIds == {"g-123", "g-456"}

\* userinfo as returned by the identity provider (sub, email, name)
UserInfos ==
    { [sub |-> "g-123", email |-> "a@x.com",  name |-> "Alice"],
      [sub |-> "g-123", email |-> "a2@x.com", name |-> "Alice B"],
      [sub |-> "g-456", email |-> "a@x.com",  name |-> Nil],
      [sub |-> Nil,     email |-> "a@x.com",  name |-> "Alice"],
      [sub |-> "g-123", email |-> Nil,        name |-> "Alice"] }

NoUserInfo == [sub |-> Nil, email |-> Nil, name |-> Nil]

\* ----------------------------------------------------------- strings
\* A header is a sequence of atoms: a space, a word without spaces, or a
\* signed token (which never holds a space).  All atoms share one shape.
Word(w) == [a |-> w, sig |-> FALSE, uid |-> <<>>, exp |-> 0]
SP == Word(" ")
Jwt(sig, uid, exp) == [a |-> "jwt", sig |-> sig, uid |-> uid, exp |-> exp]
NoToken == Word("")

\* str(uuid): the textual form of an id; <<>> is the empty / absent string
str(id) == <<id>>

\* s.startswith(prefix)
startswith(s, prefix) ==
    /\ Len(s) >= Len(prefix)
    /\ SubSeq(s, 1, Len(prefix)) = prefix

\* s.split(" "): the pieces between single spaces (empty pieces kept)
RECURSIVE split(_)
split(s) ==
    IF \A i \in 1..Len(s) : s[i] # SP
    THEN <<s>>
    ELSE LET k == CHOOSE i \in 1..Len(s) :
                     /\ s[i] = SP
                     /\ \A j \in 1..(i - 1) : s[j] # SP
         IN  <<SubSeq(s, 1, k - 1)>> \o split(SubSeq(s, k + 1, Len(s)))

\* ------------------------------------------------------ utils.jwt
\* create_access_token(data={"user_id": uid}): signed, expiring token
create_access_token(uid, t) == Jwt(TRUE, uid, t + ExpireTicks)

NoPayload == [valid |-> FALSE, user_id |-> <<>>]

\* verify_token(token): the payload, or None when the token is malformed,
\* forged or expired.  token is one piece of the split header.
verify_token(token, t) ==
    IF /\ Len(token) = 1
       /\ token[1].a = "jwt"
       /\ token[1].sig
       /\ t < token[1].exp
    THEN [valid |-> TRUE, user_id |-> token[1].uid]
    ELSE NoPayload

\* ------------------------------------------------------ HTTP outcomes
NoUser == [id |-> <<>>, google_id |-> Nil, email |-> Nil, name |-> Nil,
           created_at |-> <<>>]

NoOutcome == [status |-> 0, detail |-> <<>>, access_token |-> NoToken,
              user |-> NoUser]

HTTPException(status_code, detail) ==
    [status |-> status_code, detail |-> detail, access_token |-> NoToken,
     user |-> NoUser]

\* ------------------------------------------------------------ state
VARIABLES
    profiles,        \* committed rows of table profiles
    pc,              \* per handler slot: the await it is suspended at
    req,             \* per handler slot: request inputs and handler locals
    outcome,         \* per handler slot: the response or raised HTTPException
    pend,            \* per session: the uncommitted write of its transaction
    sessions,        \* per handler slot: AsyncSessions open for it
    conns,           \* slots holding a pooled connection
    nextId,          \* the next fresh uuid4
    now,             \* the clock
    started,         \* requests accepted so far
    issued,          \* access tokens handed to clients, with their subject
    lastLogin,       \* per google_id: the callback that committed last
    uniqueGoogleId,  \* whether the database enforces UNIQUE(google_id)
    configured,      \* whether GOOGLE_CLIENT_ID / _SECRET are set
    horizon          \* requests and clock ticks a behaviour may take

vars == <<profiles, pc, req, outcome, pend, sessions, conns, nextId, now,
          started, issued, lastLogin, uniqueGoogleId, configured,
          horizon>>

NoRow == [id |-> 0, google_id |-> Nil, email |-> Nil, name |-> Nil,
          created_at |-> 0]
NoPend == [op |-> "none", ids |-> {}, row |-> NoRow]
NoLogin == [userinfo |-> NoUserInfo, id |-> 0]

NoReq == [kind |-> "none", present |-> FALSE, authorization |-> <<>>,
          userinfo |-> NoUserInfo,
          user_id |-> <<>>,
          existing_user |-> 0, new_id |-> 0, fault |-> "", overlap |-> FALSE]

InitWith(reqs, ticks) ==
    /\ horizon = [reqs |-> reqs, ticks |-> ticks]
    /\ profiles = {}
    /\ pc = [r \in Slots |-> "idle"]
    /\ req = [r \in Slots |-> NoReq]
    /\ outcome = [r \in Slots |-> NoOutcome]
    /\ pend = [r \in Slots |-> NoPend]
    /\ sessions = [r \in Slots |-> 0]
    /\ conns = {}
    /\ nextId = 1
    /\ now = 0
    /\ started = 0
    /\ issued = {}
    /\ lastLogin = [g \in GoogleIds |-> NoLogin]
    /\ uniqueGoogleId \in BOOLEAN
    /\ configured \in BOOLEAN

Init == InitWith(MaxReqs, MaxTime)

\* message of an exception raised by the driver or the connection
DbError == "connection lost"

\* ------------------------------------------------------ shared steps
\* A request is accepted by the lowest free handler slot.
Accept(r) ==
    /\ pc[r] = "idle"
    /\ started < horizon.reqs
    /\ \A s \in Slots : s < r => pc[s] # "idle"
    /\ started' = started + 1

\* callbacks that are inside upsert_user
InUpsert == {s \in Slots : pc[s] \in {"select", "update", "insert", "commit"}}

\* get_db, up to its yield: one AsyncSession is opened for the request
get_db_enter(r) == sessions' = [sessions EXCEPT ![r] = @ + 1]

\* db.execute checks a connection out of the pool (pool_size + max_overflow)
\* unless the session's transaction already holds one
Checkout(r) ==
    /\ r \in conns \/ Cardinality(conns) < pool_size + max_overflow
    /\ conns' = conns \cup {r}

\* the handler leaves with a response (return) or an exception (raise) and
\* its locals go out of scope; fault is the message of the awaited call
\* that raised, "" when none did
Leave(r, how, out, fault) ==
    /\ pc' = [pc EXCEPT ![r] = how]
    /\ outcome' = [outcome EXCEPT ![r] = out]
    /\ req' = [req EXCEPT ![r] = [NoReq EXCEPT !.kind = req[r].kind,
                                               !.present = req[r].present,
                                               !.fault = fault]]

\* ------------------------------------------------------ /google/login
google_login_result(creds) ==
    IF ~creds
    THEN HTTPException(500, <<"OAuth credentials not configured">>)
    ELSE [NoOutcome EXCEPT !.status = 302]

google_login(r) ==
    /\ Accept(r)
    /\ req' = [req EXCEPT ![r] = [NoReq EXCEPT !.kind = "login"]]
    /\ pc' = [pc EXCEPT ![r] = IF configured THEN "returned" ELSE "raised"]
    /\ outcome' = [outcome EXCEPT ![r] = google_login_result(configured)]
    /\ UNCHANGED <<profiles, pend, sessions, conns, nextId, now, issued,
                   lastLogin, uniqueGoogleId, configured, horizon>>

\* the redirect (or the error) is sent; this handler holds no session
LoginDone(r) ==
    /\ pc[r] \in {"returned", "raised"}
    /\ req[r].kind = "login"
    /\ pc' = [pc EXCEPT ![r] = "idle"]
    /\ req' = [req EXCEPT ![r] = NoReq]
    /\ outcome' = [outcome EXCEPT ![r] = NoOutcome]
    /\ UNCHANGED <<profiles, pend, sessions, conns, nextId, now, started,
                   issued, lastLogin, uniqueGoogleId, configured, horizon>>

\* --------------------------------------------------- /google/callback
\* except Exception as e: raise HTTPException(500, f"OAuth callback failed: {e}")
callback_except(msg) == HTTPException(500, <<"OAuth callback failed: ", msg>>)

\* variant: the except clause swallows the error and answers 200
callback_on_error_swallowed(r, msg) ==
    Leave(r, "returned", [NoOutcome EXCEPT !.status = 200], msg)

\* where the handler goes when an awaited call raises
callback_on_error(r, msg) == Leave(r, "raised", callback_except(msg), msg)

\* the request arrives; Depends(get_db) opens its session
CallbackBegin(r) ==
    /\ Accept(r)
    /\ get_db_enter(r)
    /\ req' = [req EXCEPT ![r] = [NoReq EXCEPT !.kind = "callback"]]
    /\ pc' = [pc EXCEPT ![r] = "exchange"]
    /\ UNCHANGED <<profiles, outcome, pend, conns, nextId, now, issued,
                   lastLogin, uniqueGoogleId, configured, horizon>>

\* lines 50-62: the token exchange yields userinfo ui, then sub and email
\* are checked; from here on upsert_user runs for ui.sub, and overlap
\* records whether another upsert_user for that sub runs at the same time
CallbackExchange(r, ok, ui) ==
    /\ pc[r] = "exchange"
    /\ IF ~ok \/ ~configured
       THEN callback_on_error(r, "token exchange failed")
       ELSE IF ui.sub = Nil \/ ui.email = Nil
            THEN callback_on_error(r, "400: Invalid user info from Google")
            ELSE LET same == {s \in InUpsert : req[s].userinfo.sub = ui.sub}
                 IN  /\ req' = [s \in Slots |->
                                  IF s = r
                                  THEN [req[r] EXCEPT !.userinfo = ui,
                                                      !.overlap = (same # {})]
                                  ELSE IF s \in same
                                       THEN [req[s] EXCEPT !.overlap = TRUE]
                                       ELSE req[s]]
                     /\ pc' = [pc EXCEPT ![r] = "select"]
                     /\ UNCHANGED outcome
    /\ UNCHANGED <<profiles, pend, sessions, conns, nextId, now, started,
                   issued, lastLogin, uniqueGoogleId, configured, horizon>>

\* lines 118-122: SELECT id FROM profiles WHERE google_id = :google_id
UpsertSelect(r, ok) ==
    /\ pc[r] = "select"
    /\ Checkout(r)
    /\ IF ~ok
       THEN callback_on_error(r, DbError)
       ELSE LET found == {p \in profiles : p.google_id = req[r].userinfo.sub}
            IN  /\ \E e \in (IF found = {} THEN {0} ELSE {p.id : p \in found}) :
                      req' = [req EXCEPT ![r].existing_user = e]
                /\ pc' = [pc EXCEPT ![r] = IF found = {} THEN "insert"
                                                          ELSE "update"]
                /\ UNCHANGED outcome
    /\ UNCHANGED <<profiles, pend, sessions, nextId, now, started, issued,
                   lastLogin, uniqueGoogleId, configured, horizon>>

\* rows another open transaction has written and still locks
LockedByOthers(r) == UNION {pend[s].ids : s \in Slots \ {r}}

\* lines 126-133: UPDATE profiles SET email, name WHERE google_id = :google_id
UpsertUpdate(r, ok) ==
    /\ pc[r] = "update"
    /\ IF ~ok
       THEN /\ callback_on_error(r, DbError)
            /\ UNCHANGED pend
       ELSE LET ids == {p.id : p \in {q \in profiles :
                                       q.google_id = req[r].userinfo.sub}}
            IN  /\ ids \cap LockedByOthers(r) = {}
                /\ pend' = [pend EXCEPT ![r] =
                              [op |-> "update", ids |-> ids,
                               row |-> [NoRow EXCEPT
                                          !.email = req[r].userinfo.email,
                                          !.name = req[r].userinfo.name]]]
                /\ pc' = [pc EXCEPT ![r] = "commit"]
                /\ UNCHANGED <<req, outcome>>
    /\ UNCHANGED <<profiles, sessions, conns, nextId, now, started, issued,
                   lastLogin, uniqueGoogleId, configured, horizon>>

\* uuid.uuid4(): an id no row and no earlier call has
uuid4 == nextId

\* lines 138-145: INSERT INTO profiles (id, google_id, email, name, created_at)
UpsertInsert(r, ok) ==
    /\ pc[r] = "insert"
    /\ nextId' = nextId + 1
    /\ LET sub == req[r].userinfo.sub
           taken == \E p \in profiles : p.google_id = sub
           racing == \E s \in Slots \ {r} :
                        /\ pend[s].op = "insert"
                        /\ pend[s].row.google_id = sub
       IN  IF ~ok
           THEN /\ callback_on_error(r, DbError)
                /\ UNCHANGED pend
           ELSE IF uniqueGoogleId /\ taken
                THEN /\ callback_on_error(r, "duplicate key value violates unique constraint")
                     /\ UNCHANGED pend
                ELSE /\ ~(uniqueGoogleId /\ racing)
                     /\ pend' = [pend EXCEPT ![r] =
                                   [op |-> "insert", ids |-> {uuid4},
                                    row |-> [id |-> uuid4, google_id |-> sub,
                                             email |-> req[r].userinfo.email,
                                             name |-> req[r].userinfo.name,
                                             created_at |-> now]]]
                     /\ req' = [req EXCEPT ![r].new_id = uuid4]
                     /\ pc' = [pc EXCEPT ![r] = "commit"]
                     /\ UNCHANGED outcome
    /\ UNCHANGED <<profiles, sessions, conns, now, started, issued,
                   lastLogin, uniqueGoogleId, configured, horizon>>

\* variant: the UPDATE also resets created_at
ApplyWrite_touching_created_at(rows, w) ==
    IF w.op = "insert" THEN rows \cup {w.row}
    ELSE IF w.op = "update"
         THEN {IF p.id \in w.ids
               THEN [p EXCEPT !.email = w.row.email, !.name = w.row.name,
                              !.created_at = w.row.created_at]
               ELSE p : p \in rows}
         ELSE rows

\* the table once a transaction's write is committed
ApplyWrite(rows, w) ==
    IF w.op = "insert" THEN rows \cup {w.row}
    ELSE IF w.op = "update"
         THEN {IF p.id \in w.ids
               THEN [p EXCEPT !.email = w.row.email, !.name = w.row.name]
               ELSE p : p \in rows}
         ELSE rows

\* variant: the id of the SELECT is returned on both branches
upsert_return_existing_only(existing_user, new_id) == existing_user

\* upsert_user's return value: existing_user[0] or new_id
upsert_return(existing_user, new_id) ==
    IF existing_user # 0 THEN existing_user ELSE new_id

\* lines 68-78: the success payload
callback_response(user_id, ui, t) ==
    [status |-> 200, detail |-> <<>>,
     access_token |-> create_access_token(str(user_id), t),
     user |-> [NoUser EXCEPT !.id = str(user_id), !.email = ui.email,
                             !.name = ui.name]]

\* lines 134 / 146, then 68-78: commit, sign the token, return
UpsertCommit(r, ok) ==
    /\ pc[r] = "commit"
    /\ IF ~ok
       THEN /\ callback_on_error(r, DbError)
            /\ UNCHANGED <<profiles, pend, conns, issued, lastLogin>>
       ELSE LET user_id == upsert_return(req[r].existing_user, req[r].new_id)
                out == callback_response(user_id, req[r].userinfo, now)
            IN  /\ profiles' = ApplyWrite(profiles, pend[r])
                /\ pend' = [pend EXCEPT ![r] = NoPend]
                /\ conns' = conns \ {r}
                /\ issued' = issued \cup {[token |-> out.access_token,
                                         sub |-> req[r].userinfo.sub]}
                /\ lastLogin' = [lastLogin EXCEPT ![req[r].userinfo.sub] =
                                   [userinfo |-> req[r].userinfo,
                                    id |-> user_id]]
                /\ Leave(r, "returned", out, "")
    /\ UNCHANGED <<sessions, nextId, now, started, uniqueGoogleId,
                   configured, horizon>>

\* ---------------------------------------------------------------- /me
Bearer == <<Word("Bearer"), SP>>

\* variant: the check of the user_id claim is left out
get_current_user_checks_without_claim(authorization, t) ==
    IF ~startswith(authorization, Bearer)
    THEN HTTPException(401, <<"Invalid authorization header">>)
    ELSE IF ~verify_token(split(authorization)[2], t).valid
         THEN HTTPException(401, <<"Invalid or expired token">>)
         ELSE NoOutcome

\* lines 92-103: the checks made before the database is touched; the
\* result is the exception raised, or NoOutcome when all of them pass
get_current_user_checks(authorization, t) ==
    IF ~startswith(authorization, Bearer)
    THEN HTTPException(401, <<"Invalid authorization header">>)
    ELSE LET token == split(authorization)[2]
             payload == verify_token(token, t)
         IN  IF ~payload.valid
             THEN HTTPException(401, <<"Invalid or expired token">>)
             ELSE IF payload.user_id = <<>>
                  THEN HTTPException(401, <<"Invalid token payload">>)
                  ELSE NoOutcome

\* payload.get("user_id") of the token the header carries
header_user_id(authorization, t) ==
    verify_token(split(authorization)[2], t).user_id

\* tokens a client may present that this server never issued
ForgedTokens ==
    { Jwt(FALSE, str(1), MaxTime + ExpireTicks + 1),              \* bad signature
      Jwt(TRUE, <<>>, MaxTime + ExpireTicks + 1),                 \* no user_id claim
      Jwt(TRUE, str(MaxReqs + 5), MaxTime + ExpireTicks + 1) }    \* unknown subject

\* Authorization header values a client may send
Headers ==
    LET own == {i.token : i \in issued}
        alien == Jwt(TRUE, str(MaxReqs + 5), MaxTime + ExpireTicks + 1)
    IN  {Bearer, <<Word("bearer"), SP, alien>>, Bearer \o <<SP, alien>>}
        \cup {Bearer \o <<t>> : t \in own \cup ForgedTokens}
        \cup {Bearer \o <<t, SP, Word("junk")>> : t \in own}

\* isoformat() of a timestamp; <<>> is None
isoformat(t) == <<t>>

\* lines 169-182: the projection of a row
projection(row) ==
    [id |-> str(row.id), google_id |-> row.google_id, email |-> row.email,
     name |-> row.name, created_at |-> isoformat(row.created_at)]

\* lines 154-182 and 107-110: SELECT ... WHERE id = :user_id, then the reply
get_user_by_id_reply(rows, user_id) ==
    LET hit == {p \in rows : str(p.id) = user_id}
    IN  IF hit = {}
        THEN HTTPException(404, <<"User not found">>)
        ELSE [status |-> 200, detail |-> <<>>, access_token |-> NoToken,
              user |-> projection(CHOOSE p \in hit : TRUE)]

\* the request arrives; Header(...) is required, Depends(get_db) opens the
\* session, then lines 92-103 run without an await
MeBegin(r, present, h) ==
    /\ Accept(r)
    /\ get_db_enter(r)
    /\ LET chk == IF present THEN get_current_user_checks(h, now)
                  ELSE HTTPException(422, <<"Field required">>)
           pass == chk = NoOutcome
       IN  /\ req' = [req EXCEPT ![r] =
                        [NoReq EXCEPT !.kind = "me", !.present = present,
                                      !.authorization = h,
                                      !.user_id = IF pass
                                                  THEN header_user_id(h, now)
                                                  ELSE <<>>]]
           /\ pc' = [pc EXCEPT ![r] = IF pass THEN "me_select" ELSE "raised"]
           /\ outcome' = [outcome EXCEPT ![r] = chk]
    /\ UNCHANGED <<profiles, pend, conns, nextId, now, issued, lastLogin,
                   uniqueGoogleId, configured, horizon>>

\* line 106: await get_user_by_id(db, user_id)
MeSelect(r, ok) ==
    /\ pc[r] = "me_select"
    /\ Checkout(r)
    /\ IF ~ok
       THEN Leave(r, "raised", HTTPException(500, <<"Internal Server Error">>),
                  DbError)
       ELSE LET out == get_user_by_id_reply(profiles, req[r].user_id)
            IN  Leave(r, IF out.status = 200 THEN "returned" ELSE "raised",
                      out, "")
    /\ UNCHANGED <<profiles, pend, sessions, nextId, now, started, issued,
                   lastLogin, uniqueGoogleId, configured, horizon>>

\* ----------------------------------------------------------- /check-db
CheckDbBegin(r) ==
    /\ Accept(r)
    /\ get_db_enter(r)
    /\ req' = [req EXCEPT ![r] = [NoReq EXCEPT !.kind = "check_db"]]
    /\ pc' = [pc EXCEPT ![r] = "check"]
    /\ UNCHANGED <<profiles, outcome, pend, conns, nextId, now, issued,
                   lastLogin, uniqueGoogleId, configured, horizon>>

\* database.py lines 43-55: SELECT 1
check_db_connection(r, ok) ==
    /\ pc[r] = "check"
    /\ Checkout(r)
    /\ IF ok
       THEN Leave(r, "returned",
                  [NoOutcome EXCEPT !.status = 200,
                                    !.detail = <<"success", "1">>], "")
       ELSE Leave(r, "raised",
                  HTTPException(500, <<"Database connection failed: ",
                                       DbError>>), DbError)
    /\ UNCHANGED <<profiles, pend, sessions, nextId, now, started, issued,
                   lastLogin, uniqueGoogleId, configured, horizon>>

\* ------------------------------------------------------------- get_db
\* variant: the session is closed on return but not when the handler raises
get_db_exit_leaking_on_raise(n, how) == IF how = "raised" THEN n ELSE n - 1

\* sessions left open for a request once get_db's finally has run
get_db_exit(n, how) == n - 1

\* database.py lines 32-36: after the handler returned or raised, the
\* session is closed: its transaction is rolled back, its connection
\* goes back to the pool, and the response is sent
GetDbFinally(r) ==
    /\ pc[r] \in {"returned", "raised"}
    /\ req[r].kind # "login"
    /\ sessions' = [sessions EXCEPT ![r] = get_db_exit(@, pc[r])]
    /\ pend' = [pend EXCEPT ![r] = NoPend]
    /\ conns' = IF sessions'[r] = 0 THEN conns \ {r} ELSE conns
    /\ pc' = [pc EXCEPT ![r] = "idle"]
    /\ req' = [req EXCEPT ![r] = NoReq]
    /\ outcome' = [outcome EXCEPT ![r] = NoOutcome]
    /\ UNCHANGED <<profiles, nextId, now, started, issued, lastLogin,
                   uniqueGoogleId, configured, horizon>>

\* -------------------------------------------------------------- clock
\* One tick is of the order of a token's lifetime, far longer than a
\* request: the clock is seen to advance between requests.
Tick ==
    /\ now < horizon.ticks
    /\ \A r \in Slots : pc[r] = "idle"
    /\ now' = now + 1
    /\ UNCHANGED <<profiles, pc, req, outcome, pend, sessions, conns, nextId,
                   started, issued, lastLogin, uniqueGoogleId,
                   configured, horizon>>

Next ==
    \/ \E r \in Slots : google_login(r)
    \/ \E r \in Slots : LoginDone(r)
    \/ \E r \in Slots : CallbackBegin(r)
    \/ \E r \in Slots, ok \in BOOLEAN, ui \in UserInfos : CallbackExchange(r, ok, ui)
    \/ \E r \in Slots, ok \in BOOLEAN : UpsertSelect(r, ok)
    \/ \E r \in Slots, ok \in BOOLEAN : UpsertUpdate(r, ok)
    \/ \E r \in Slots, ok \in BOOLEAN : UpsertInsert(r, ok)
    \/ \E r \in Slots, ok \in BOOLEAN : UpsertCommit(r, ok)
    \/ \E r \in Slots : MeBegin(r, FALSE, <<>>)
    \/ \E r \in Slots : \E h \in Headers : MeBegin(r, TRUE, h)
    \/ \E r \in Slots, ok \in BOOLEAN : MeSelect(r, ok)
    \/ \E r \in Slots : CheckDbBegin(r)
    \/ \E r \in Slots, ok \in BOOLEAN : check_db_connection(r, ok)
    \/ \E r \in Slots : GetDbFinally(r)
    \/ Tick

Spec == Init /\ [][Next]_vars

\* the same system followed for one request longer
InitLong == InitWith(MaxReqs + 1, MaxTime)
SpecLong == InitLong /\ [][Next]_vars

\* ======================================================== properties
RowsOf(rows, g) == {p \in rows : p.google_id = g}

\* the step in which callback r commits its upsert and returns
Commits(r) == pc[r] = "commit" /\ pc'[r] = "returned"

\* C1: in every reachable state the profiles table holds at most one row
\* per google_id, whatever the interleaving of concurrent callbacks.
C1_OneRowPerExternalId ==
    \A p \in profiles, q \in profiles : p.google_id = q.google_id => p = q

\* what C2 asks of the step in which slot r commits
C2_Step(r) ==
    LET ui == req[r].userinfo
        id == req[r].existing_user
    IN  (Commits(r) /\ id # 0 /\ ~req[r].overlap) =>
          /\ Cardinality(profiles') = Cardinality(profiles)
          /\ \A p \in RowsOf(profiles', ui.sub) :
                p.email = ui.email /\ p.name = ui.name
          /\ \E p \in RowsOf(profiles, ui.sub) : p.id = id
          /\ outcome'[r].user.id = str(id)
          /\ lastLogin[ui.sub].userinfo = ui =>
                /\ id = lastLogin[ui.sub].id
                /\ Cardinality(RowsOf(profiles', ui.sub)) = 1

\* C2: an upsert that overlaps no other callback for its google_id and finds
\* a row for it leaves the number of rows unchanged, overwrites email and
\* name with the supplied values and returns the id of the row it found;
\* when it repeats the assertion committed last for that google_id it
\* returns the same id again and leaves exactly one row for the google_id.
C2_UpsertExisting == [][\A r \in Slots : C2_Step(r)]_vars

\* what C3 asks of the step in which slot r commits
C3_Step(r) ==
    LET ui == req[r].userinfo
    IN  (Commits(r) /\ req[r].existing_user = 0 /\ ~req[r].overlap) =>
          \E row \in profiles' \ profiles :
             /\ profiles' = profiles \cup {row}
             /\ RowsOf(profiles, ui.sub) = {}
             /\ row.google_id = ui.sub
             /\ row.email = ui.email
             /\ row.name = ui.name
             /\ \A p \in profiles : p.id # row.id
             /\ outcome'[r].status = 200
             /\ outcome'[r].user.id = str(row.id)
             /\ outcome'[r].user.email = ui.email
             /\ outcome'[r].user.name = ui.name
             /\ outcome'[r].access_token.a = "jwt"
             /\ outcome'[r].access_token.uid = str(row.id)

\* C3: a callback with a valid assertion whose google_id has no row and that
\* overlaps no other callback for it adds exactly one row, carrying the
\* asserted google_id, email and name and an id no existing row has; that
\* id is returned as user.id and is the user_id claim of the issued token.
C3_FirstLogin == [][\A r \in Slots : C3_Step(r)]_vars

C3_Witness ==
    \E r \in Slots :
       /\ req[r].kind = "callback"
       /\ pc[r] = "returned"
       /\ Cardinality(profiles) = 2
       /\ \E p \in profiles : str(p.id) = outcome[r].user.id /\ p.id = 2
       /\ Cardinality({p.google_id : p \in profiles}) = 2

\* what C4 asks of the step in which slot r answers /me
C4_Step(r) ==
    (pc[r] = "me_select" /\ pc'[r] # "me_select" /\ req'[r].fault = "") =>
       \A i \in issued :
          i.token.uid = req[r].user_id =>
             /\ outcome'[r].status = 200
             /\ outcome'[r].user.id = req[r].user_id
             /\ outcome'[r].user.google_id = i.sub
             /\ outcome'[r].user.email = lastLogin[i.sub].userinfo.email
             /\ outcome'[r].user.name = lastLogin[i.sub].userinfo.name

\* C4: a /me request that presents an unexpired token issued by a callback
\* for google_id g answers with the profile whose id is the token's user_id
\* and whose google_id is g, with the email and name of the callback that
\* committed last for g; it never answers "User not found".
C4_TokenRoundTrip == [][\A r \in Slots : C4_Step(r)]_vars

\* the header's first two atoms are the word Bearer and one space
HasBearerPrefix(h) == Len(h) >= 2 /\ h[1].a = "Bearer" /\ h[2].a = " "

\* what stands between the first space and the next one (or the end)
TokenPart(h) ==
    LET stops == {i \in 3..Len(h) : h[i].a = " "}
        last == IF stops = {} THEN Len(h)
                ELSE (CHOOSE i \in stops : \A j \in stops : i <= j) - 1
    IN  [i \in 1..(last - 2) |-> h[i + 2]]

\* the token part is one well-signed token that has not expired
Verifies(h, t) ==
    LET part == TokenPart(h)
    IN  /\ Len(part) = 1
        /\ part[1].a = "jwt"
        /\ part[1].sig
        /\ t < part[1].exp

\* what C5 asks of a /me request that was accepted with a header
C5_Begin(r) ==
    LET h == req'[r].authorization
    IN  (pc[r] = "idle" /\ req'[r].kind = "me" /\ req'[r].present) =>
           IF ~HasBearerPrefix(h)
           THEN /\ pc'[r] = "raised"
                /\ outcome'[r] = HTTPException(401, <<"Invalid authorization header">>)
           ELSE IF ~Verifies(h, now)
           THEN /\ pc'[r] = "raised"
                /\ outcome'[r] = HTTPException(401, <<"Invalid or expired token">>)
           ELSE IF TokenPart(h)[1].uid = <<>>
           THEN /\ pc'[r] = "raised"
                /\ outcome'[r] = HTTPException(401, <<"Invalid token payload">>)
           ELSE /\ pc'[r] = "me_select"
                /\ req'[r].user_id = TokenPart(h)[1].uid
                /\ outcome'[r] = NoOutcome

\* what C5 asks of the step in which the lookup of /me answers
C5_Lookup(r) ==
    (pc[r] = "me_select" /\ pc'[r] # "me_select" /\ req'[r].fault = "") =>
       LET hit == {p \in profiles : <<p.id>> = req[r].user_id}
       IN  IF hit = {}
           THEN /\ pc'[r] = "raised"
                /\ outcome'[r] = HTTPException(404, <<"User not found">>)
           ELSE /\ pc'[r] = "returned"
                /\ outcome'[r].status = 200
                /\ \E p \in hit :
                      /\ outcome'[r].user.id = <<p.id>>
                      /\ outcome'[r].user.google_id = p.google_id
                      /\ outcome'[r].user.email = p.email
                      /\ outcome'[r].user.name = p.name
                      /\ outcome'[r].user.created_at = <<p.created_at>>

\* C5: for a present Authorization header /me gives the outcome of the
\* first failing check: no "Bearer " prefix -> 401 Invalid authorization
\* header; token part not verifying (expired, forged, malformed or empty)
\* -> 401 Invalid or expired token; no user_id claim -> 401 Invalid token
\* payload; and once the lookup has run: no row with that id -> 404 User
\* not found, else 200 with the row's projection.
C5_MeOutcome == [][\A r \in Slots : C5_Begin(r) /\ C5_Lookup(r)]_vars

\* /me was refused for a header carrying a token this server issued, after
\* the token expired
C5_Witness ==
    \E s \in Slots :
       /\ req[s].kind = "me"
       /\ pc[s] = "raised"
       /\ \E i \in issued : /\ req[s].authorization = Bearer \o <<i.token>>
                             /\ i.token.exp <= now
       /\ outcome[s] = HTTPException(401, <<"Invalid or expired token">>)

\* C6: a /me request without an Authorization header ends as 401
\* (unauthorized), and not with the outcome of a malformed header.
C6_MissingHeaderIs401 ==
    \A r \in Slots :
       (req[r].kind = "me" /\ ~req[r].present /\ pc[r] # "idle") =>
          /\ pc[r] = "raised"
          /\ outcome[r].status = 401
          /\ outcome[r] # HTTPException(401, <<"Invalid authorization header">>)

\* C7: a callback whose assertion lacks the subject id or the email ends
\* as 400 (bad request), not as a server error.
C7_BadAssertionIs400 ==
    \A r \in Slots :
       (req[r].kind = "callback"
          /\ req[r].fault = "400: Invalid user info from Google") =>
          /\ pc[r] = "raised"
          /\ outcome[r].status = 400

\* what C8 asks of every step, for slot r
C8_Step(r) ==
    /\ (req'[r].kind = "callback" /\ req'[r].fault # "") =>
          /\ pc'[r] = "raised"
          /\ outcome'[r].status = 500
          /\ outcome'[r].detail = <<"OAuth callback failed: ", req'[r].fault>>
          /\ outcome'[r].access_token = NoToken
          /\ outcome'[r].user = NoUser
          /\ req[r].fault = "" => profiles' = profiles /\ issued' = issued
    /\ (req[r].kind = "callback" /\ req[r].fault # "") =>
          \/ UNCHANGED <<pc[r], req[r], outcome[r]>>
          \/ pc'[r] = "idle" /\ req'[r] = NoReq /\ outcome'[r] = NoOutcome

\* C8: when the token exchange, a statement or the commit of a callback
\* fails, the callback ends as 500 "OAuth callback failed: <message>": it
\* carries no token and no user, the failing step writes nothing to the
\* table and issues no token, and the handler runs nothing afterwards but
\* the release of its session.
C8_FailureSurfaces == [][\A r \in Slots : C8_Step(r)]_vars

\* a commit failed with the write still pending
C8_Witness ==
    \E r \in Slots :
       /\ req[r].kind = "callback"
       /\ req[r].fault = DbError
       /\ pc[r] = "raised"
       /\ pend[r].op # "none"

\* what C9 asks of every step
C9_Step ==
    /\ \A p \in profiles :
          \E q \in profiles' : /\ q.id = p.id
                               /\ q.google_id = p.google_id
                               /\ q.created_at = p.created_at
    /\ Cardinality(profiles') >= Cardinality(profiles)
    /\ profiles' # profiles =>
          \E r \in Slots :
             /\ Commits(r)
             /\ req[r].kind = "callback"
             /\ req[r].userinfo.sub # Nil
             /\ req[r].userinfo.email # Nil
             /\ \/ \E row \in profiles' \ profiles :
                      /\ profiles' = profiles \cup {row}
                      /\ \A p \in profiles : p.id # row.id
                \/ /\ {p.id : p \in profiles'} = {p.id : p \in profiles}
                   /\ Cardinality(profiles') = Cardinality(profiles)
                   /\ \A q \in profiles' \ profiles :
                         /\ q.google_id = req[r].userinfo.sub
                         /\ q.email = req[r].userinfo.email
                         /\ q.name = req[r].userinfo.name

\* C9: a step changes the table only by committing a callback's upsert:
\* either one new row is added, or email and name of rows of the asserted
\* google_id are overwritten; no row disappears and no row's id, google_id
\* or created_at changes.
C9_TableFrame == [][C9_Step]_vars

\* a row created at tick 1 has had its email overwritten
C9_Witness ==
    \E p \in profiles :
       /\ p.created_at = 1
       /\ p.email = "a2@x.com"
       /\ lastLogin[p.google_id].id = p.id

\* C10: a request that uses get_db holds exactly one session from its
\* arrival until get_db's finally has run, and none otherwise; pooled
\* connections and open transactions belong to open sessions; so when no
\* request is in flight nothing is left checked out.
C10_SessionScoped ==
    /\ \A r \in Slots :
          /\ sessions[r] = IF pc[r] # "idle" /\ req[r].kind # "login"
                           THEN 1 ELSE 0
          /\ r \in conns => sessions[r] = 1
          /\ pend[r] # NoPend => sessions[r] = 1
    /\ Cardinality(conns) <= pool_size + max_overflow
    /\ (\A r \in Slots : pc[r] = "idle") =>
          /\ conns = {}
          /\ \A r \in Slots : sessions[r] = 0 /\ pend[r] = NoPend

\* everything is released after a callback that raised at or after its INSERT
C10_Witness ==
    /\ started = 2
    /\ \A r \in Slots : pc[r] = "idle" /\ sessions[r] = 0
    /\ conns = {}
    /\ profiles = {}
    /\ nextId = 2

====
